---- MODULE Spec2Model ----
(***************************************************************************)
(* Model of monitor/parse.py: the benchmark result aggregator.             *)
(*                                                                         *)
(* Python values are records [t, n, s, d]: t is the Python type, n the     *)
(* number (a float is kept exactly, in thousandths; an int as itself), s   *)
(* the text of a str, d the items of a dict as a sequence of               *)
(* <<key, value>> pairs in insertion order, the order json.dump writes.    *)
(***************************************************************************)
EXTENDS Integers, Sequences, FiniteSets, TLC

VARIABLES dirs, k6_files, res_files, summary_file,
          pc, gw_idx, summary, lookups, stdout, exit_code, run, prev_file,
          call, arg, ret

vars == <<dirs, k6_files, res_files, summary_file,
          pc, gw_idx, summary, lookups, stdout, exit_code, run, prev_file,
          call, arg, ret>>

-----------------------------------------------------------------------------
(* Bounds of the model *)

\* at most this many result files exist under the results directory
MaxFiles == 2
\* the program is run at most this many times on the unchanged directory
MaxRuns == 2
\* at most this many data rows in a resources CSV handed to parse_resources
MaxRows == 3

-----------------------------------------------------------------------------
(* Python values *)

Float(x) == [t |-> "float", n |-> x, s |-> "", d |-> <<>>]
IntV(x)  == [t |-> "int",   n |-> x, s |-> "", d |-> <<>>]
StrV(x)  == [t |-> "str",   n |-> 0, s |-> x,  d |-> <<>>]
NoneV    == [t |-> "None",  n |-> 0, s |-> "", d |-> <<>>]
ListV    == [t |-> "list",  n |-> 0, s |-> "", d |-> <<>>]
Dict(kv) == [t |-> "dict",  n |-> 0, s |-> "", d |-> kv]
EmptyDict == Dict(<<>>)

IsNumber(v) == v.t \in {"float", "int"}

\* `k in d` for a dict d
HasKey(v, k) == \E i \in 1..Len(v.d) : v.d[i][1] = k

\* d[k] for a key that is present
Item(v, k) == v.d[CHOOSE i \in 1..Len(v.d) : v.d[i][1] = k][2]

\* d.get(k, default)
Get(v, k, default) == IF HasKey(v, k) THEN Item(v, k) ELSE default

\* d[k] = x : a new key goes last, an old key keeps its place
Put(v, k, x) ==
    IF HasKey(v, k)
    THEN Dict([i \in 1..Len(v.d) |-> IF v.d[i][1] = k THEN <<k, x>> ELSE v.d[i]])
    ELSE Dict(Append(v.d, <<k, x>>))

\* The outcome of a call: err = "none" and the value, or the exception raised
\* the first exception of a sequence of outcomes, "none" if there is none
FirstErrOf(rs) ==
    IF \E i \in 1..Len(rs) : rs[i].err # "none"
    THEN rs[CHOOSE i \in 1..Len(rs) :
                rs[i].err # "none" /\ \A j \in 1..(i - 1) : rs[j].err = "none"].err
    ELSE "none"

Ok(v)      == [err |-> "none", val |-> v]
Raise(e)   == [err |-> e, val |-> NoneV]
Raised(r)  == r.err # "none"

\* run F on the value of r unless r raised: an exception passes through
Then(r, F(_)) == IF Raised(r) THEN Raise(r.err) ELSE F(r.val)

\* the outcomes of a sequence of steps as one: the first exception, or F of
\* the sequence of their values
AllThen(rs, F(_)) ==
    IF FirstErrOf(rs) # "none" THEN Raise(FirstErrOf(rs))
    ELSE F([i \in 1..Len(rs) |-> rs[i].val])

-----------------------------------------------------------------------------
(* Rounding *)

\* a / b (b > 0) rounded to the nearest integer, ties to the even one
RoundDiv(a, b) ==
    LET q == a \div b
        r == a % b
    IN  IF 2 * r < b THEN q
        ELSE IF 2 * r > b THEN q + 1
        ELSE IF q % 2 = 0 THEN q ELSE q + 1

\* round(x, 2) of a float x given in thousandths
Round2(x) == 10 * RoundDiv(x, 10)

\* round(v, 2) of a Python value: an int stays that int, a float is rounded,
\* anything else has no __round__
round2(v) ==
    IF v.t = "float" THEN Ok(Float(Round2(v.n)))
    ELSE IF v.t = "int" THEN Ok(v)
    ELSE Raise("TypeError")


-----------------------------------------------------------------------------
(* parse_k6_summary *)

\* a loader that yields an empty object for text that is not JSON
json_load_lenient(f) == IF f.json THEN Ok(f.value) ELSE Ok(EmptyDict)

\* json.load of an open file: text that is not JSON raises
json_load(f) == IF f.json THEN Ok(f.value) ELSE Raise("JSONDecodeError")

LatencyStats == << <<"avg", "avg">>, <<"p50", "med">>, <<"p90", "p(90)">>,
                   <<"p95", "p(95)">>, <<"p99", "p(99)">>,
                   <<"min", "min">>, <<"max", "max">> >>

TtfbStats == << <<"avg", "avg">>, <<"p50", "med">>,
                <<"p95", "p(95)">>, <<"p99", "p(99)">> >>

\* `family in metrics`: a dict is searched, a list or a str is scanned (the
\* model's lists and strs hold no family name), anything else is not iterable
InMetrics(metrics, family) ==
    IF metrics.t = "dict" THEN Ok(HasKey(metrics, family))
    ELSE IF metrics.t \in {"list", "str"} THEN Ok(FALSE)
    ELSE Raise("TypeError")

\* metrics[family]['values']
FamilyValues(metrics, family) ==
    IF Item(metrics, family).t # "dict" THEN Raise("TypeError")
    ELSE IF ~HasKey(Item(metrics, family), "values") THEN Raise("KeyError")
    ELSE Ok(Item(Item(metrics, family), "values"))

\* d[stat] in place of d.get(stat, 0): an absent statistic raises
StatGetStrict(d, stat) ==
    IF d.t # "dict" THEN Raise("AttributeError")
    ELSE IF HasKey(d, stat) THEN Ok(Item(d, stat)) ELSE Raise("KeyError")

\* d.get(stat, 0) on the `values` object
StatGet(d, stat) ==
    IF d.t # "dict" THEN Raise("AttributeError") ELSE Ok(Get(d, stat, IntV(0)))

\* round(d.get(stat, 0), 2)
RoundedStat(d, stat) == Then(StatGet(d, stat), round2)

\* {'avg': round(d.get('avg', 0), 2), ...} for a table of (key, statistic)
StatBlock(d, table) ==
    AllThen([i \in 1..Len(table) |-> RoundedStat(d, table[i][2])],
            LAMBDA vs : Ok(Dict([i \in 1..Len(table) |-> <<table[i][1], vs[i]>>])))

\* `if family in metrics:` and the lookup of its `values`: F of the values
\* when the family is there, nothing stored when it is not
IfFamily(metrics, family, F(_)) ==
    Then(InMetrics(metrics, family),
         LAMBDA has : IF has THEN Then(FamilyValues(metrics, family), F)
                      ELSE Ok(EmptyDict))

\* the http_req_duration and http_req_waiting blocks
BlockPart(metrics, family, key, table) ==
    IfFamily(metrics, family,
             LAMBDA d : Then(StatBlock(d, table),
                             LAMBDA b : Ok(Dict(<< <<key, b>> >>))))

\* the http_reqs block: rps and total_requests
ReqsPart(metrics) ==
    IfFamily(metrics, "http_reqs",
             LAMBDA d : AllThen(<<RoundedStat(d, "rate"), StatGet(d, "count")>>,
                                LAMBDA vs : Ok(Dict(<< <<"rps", vs[1]>>,
                                                       <<"total_requests", vs[2]>> >>))))

\* x * 100 : a number is scaled, a str or list is repeated, the rest raise
Times100(v) ==
    IF IsNumber(v) THEN Ok([v EXCEPT !.n = v.n * 100])
    ELSE IF v.t \in {"str", "list"} THEN Ok(v)
    ELSE Raise("TypeError")

\* the success_rate block: the fraction as a percentage
SuccessPart(metrics) ==
    IfFamily(metrics, "success_rate",
             LAMBDA d : Then(Then(Then(StatGet(d, "rate"), Times100), round2),
                             LAMBDA r : Ok(Dict(<< <<"success_rate", r>> >>))))

\* the error_count block
ErrorsPart(metrics) ==
    IfFamily(metrics, "error_count",
             LAMBDA d : Then(StatGet(d, "count"),
                             LAMBDA c : Ok(Dict(<< <<"error_count", c>> >>))))

\* the blocks of parse_k6_summary in the order the code runs them
K6Parts(metrics) ==
    << BlockPart(metrics, "http_req_duration", "latency", LatencyStats),
       BlockPart(metrics, "http_req_waiting", "ttfb", TtfbStats),
       ReqsPart(metrics),
       SuccessPart(metrics),
       ErrorsPart(metrics) >>

\* data.get('metrics', {}) and the blocks, stored in `result` in code order
ParseData(data) ==
    IF data.t # "dict" THEN Raise("AttributeError")
    ELSE AllThen(K6Parts(Get(data, "metrics", EmptyDict)),
                 LAMBDA ps : Ok(Dict(ps[1].d \o ps[2].d \o ps[3].d \o ps[4].d \o ps[5].d)))

parse_k6_summary(f) ==
    IF ~f.present THEN Raise("FileNotFoundError")
    ELSE Then(json_load(f), ParseData)

-----------------------------------------------------------------------------
(* parse_resources *)

Columns == {"timestamp", "cpu_percent", "rss_mb", "fd_count", "threads"}

\* A CSV cell is text: k = "int" when it reads as an integer n, "real" when it
\* reads as a decimal number only (n thousandths), "text" when it is no number,
\* "none" when the row is too short to have it (DictReader yields None)
Cell(k, x) == [k |-> k, n |-> x]

\* row[col] of a DictReader row: the keys are the header's columns
Field(header, row, col) ==
    IF col \in header THEN Ok(row[col]) ELSE Raise("KeyError")

\* int(text)
ToInt(c) ==
    IF c.k = "int" THEN Ok(c.n)
    ELSE IF c.k = "none" THEN Raise("TypeError")
    ELSE Raise("ValueError")

\* float(text), in thousandths
ToFloat(c) ==
    IF c.k = "int" THEN Ok(c.n * 1000)
    ELSE IF c.k = "real" THEN Ok(c.n)
    ELSE IF c.k = "none" THEN Raise("TypeError")
    ELSE Raise("ValueError")

\* the dict appended to `rows` for one CSV row
ParseRow(header, row) ==
    AllThen(<< Then(Field(header, row, "timestamp"), ToInt),
               Then(Field(header, row, "cpu_percent"), ToFloat),
               Then(Field(header, row, "rss_mb"), ToFloat),
               Then(Field(header, row, "fd_count"), ToInt),
               Then(Field(header, row, "threads"), ToInt) >>,
            LAMBDA fs : Ok([timestamp |-> fs[1], cpu |-> fs[2], rss_mb |-> fs[3],
                            fd_count |-> fs[4], threads |-> fs[5]]))

\* the reading loop: every row of the file, in file order
ReadRows(f) ==
    AllThen([i \in 1..Len(f.rows) |-> ParseRow(f.header, f.rows[i])], Ok)

RECURSIVE sum(_)
sum(xs) == IF xs = <<>> THEN 0 ELSE xs[1] + sum(Tail(xs))

\* max(xs) and min(xs) of a non-empty list
max(xs) == CHOOSE m \in {xs[i] : i \in 1..Len(xs)} : \A i \in 1..Len(xs) : xs[i] <= m
min(xs) == CHOOSE m \in {xs[i] : i \in 1..Len(xs)} : \A i \in 1..Len(xs) : xs[i] >= m

\* max(rss) - min(rss) in place of last minus first
GrowthMaxMin(rss) == max(rss) - min(rss)

\* rss[-1] - rss[0]
Growth(rss) == rss[Len(rss)] - rss[1]

\* round(sum(xs) / len(xs), 2) : dividing by the length of an empty list raises
Average2(xs) ==
    IF Len(xs) = 0 THEN Raise("ZeroDivisionError")
    ELSE Ok(Float(10 * RoundDiv(sum(xs), 10 * Len(xs))))

\* round(sum(xs) / len(xs))
Average0(xs) ==
    IF Len(xs) = 0 THEN Raise("ZeroDivisionError")
    ELSE Ok(IntV(RoundDiv(sum(xs), Len(xs))))

\* the returned record, from the three column lists
Record(cpus, rss, fds) ==
    AllThen(<<Average2(cpus), Average2(rss), Average0(fds)>>,
            LAMBDA avg : Ok(Dict(<<
                <<"cpu", Dict(<< <<"avg", avg[1]>>,
                                 <<"max", Float(Round2(max(cpus)))>>,
                                 <<"min", Float(Round2(min(cpus)))>> >>)>>,
                <<"memory_mb", Dict(<< <<"avg", avg[2]>>,
                                       <<"max", Float(Round2(max(rss)))>>,
                                       <<"min", Float(Round2(min(rss)))>>,
                                       <<"growth", Float(Round2(Growth(rss)))>> >>)>>,
                <<"fd_count", Dict(<< <<"avg", avg[3]>>,
                                      <<"max", IntV(max(fds))>> >>)>>,
                <<"samples", IntV(Len(cpus))>> >>)))

\* cpus, rss and fds of the rows, and the record returned from them
Aggregates(rows) ==
    Record([i \in 1..Len(rows) |-> rows[i].cpu],
           [i \in 1..Len(rows) |-> rows[i].rss_mb],
           [i \in 1..Len(rows) |-> rows[i].fd_count])

\* `if not rows:` that never returns early
NoRowsNever(rows) == FALSE

\* `if not rows: return {}`
NoRows(rows) == rows = <<>>

parse_resources(f) ==
    IF ~f.present THEN Raise("FileNotFoundError")
    ELSE Then(ReadRows(f),
              LAMBDA rows : IF NoRows(rows) THEN Ok(EmptyDict) ELSE Aggregates(rows))

-----------------------------------------------------------------------------
(* Files *)

Missing   == [present |-> FALSE, json |-> FALSE, value |-> NoneV]
BadJson   == [present |-> TRUE,  json |-> FALSE, value |-> NoneV]
JsonFile(v) == [present |-> TRUE, json |-> TRUE, value |-> v]

NoCsv == [present |-> FALSE, header |-> {}, rows |-> <<>>]
CsvFile(h, rs) == [present |-> TRUE, header |-> h, rows |-> rs]

\* A CSV row with the given cpu_percent, rss_mb and fd_count cells
Row(cpu, rss, fd) ==
    [c \in Columns |->
        CASE c = "timestamp"   -> Cell("int", 1)
          [] c = "cpu_percent" -> cpu
          [] c = "rss_mb"      -> rss
          [] c = "fd_count"    -> fd
          [] c = "threads"     -> Cell("int", 4)]

-----------------------------------------------------------------------------
(* The k6 summaries handed to parse_k6_summary *)

FamilyNames == <<"http_req_duration", "http_req_waiting", "http_reqs",
                 "success_rate", "error_count">>

Shapes == {"absent", "noValues", "emptyValues", "partial", "full", "text"}

\* The `values` object of family i with every statistic the code reads
FullValues(i) ==
    CASE i = 1 -> << <<"avg", Float(12346)>>, <<"med", Float(11004)>>,
                     <<"p(90)", Float(20016)>>, <<"p(95)", Float(25126)>>,
                     <<"p(99)", Float(40999)>>, <<"min", Float(1001)>>,
                     <<"max", IntV(90)>> >>
      [] i = 2 -> << <<"avg", Float(8456)>>, <<"med", Float(7000)>>,
                     <<"p(95)", Float(15556)>>, <<"p(99)", Float(30001)>> >>
      [] i = 3 -> << <<"rate", Float(123456)>>, <<"count", IntV(1000)>> >>
      [] i = 4 -> << <<"rate", Float(987)>> >>
      [] i = 5 -> << <<"count", IntV(3)>> >>

\* metrics[family] in the given shape
FamilyValue(i, shape) ==
    CASE shape = "noValues"    -> EmptyDict
      [] shape = "emptyValues" -> Dict(<< <<"values", EmptyDict>> >>)
      [] shape = "partial"     -> Dict(<< <<"values", Dict(Tail(FullValues(i)))>> >>)
      [] shape = "full"        -> Dict(<< <<"values", Dict(FullValues(i))>> >>)
      [] shape = "text"        ->
            Dict(<< <<"values",
                      Dict(<< <<FullValues(i)[1][1], StrV("n/a")>> >>
                           \o Tail(FullValues(i)))>> >>)

\* the document {"metrics": {...}} whose family i has shape f[i]
K6Doc(f) ==
    LET idx == SelectSeq(<<1, 2, 3, 4, 5>>, LAMBDA i : f[i] # "absent")
    IN  Dict(<< <<"metrics",
                  Dict([j \in 1..Len(idx) |->
                          <<FamilyNames[idx[j]], FamilyValue(idx[j], f[idx[j]])>>])>> >>)

\* valid JSON that is no load-test summary
OddDocs == { ListV, NoneV, IntV(1), EmptyDict,
             Dict(<< <<"metrics", NoneV>> >>),
             Dict(<< <<"metrics", ListV>> >>),
             Dict(<< <<"metrics", Dict(<< <<"http_reqs", NoneV>> >>)>> >>),
             Dict(<< <<"metrics", Dict(<< <<"http_reqs",
                        Dict(<< <<"values", ListV>> >>)>> >>)>> >>) }

K6Inputs ==
    {Missing, BadJson}
    \cup {JsonFile(v) : v \in OddDocs}
    \cup {JsonFile(K6Doc(f)) : f \in [1..5 -> Shapes]}

-----------------------------------------------------------------------------
(* The resources CSVs handed to parse_resources *)

CpuCells == {Cell("real", 12346), Cell("int", 50)}
RssCells == {Cell("int", 100), Cell("real", 101506), Cell("real", 99994)}
FdCells  == {Cell("int", 10), Cell("int", 13)}

GoodRows == {Row(c, r, f) : c \in CpuCells, r \in RssCells, f \in FdCells}

\* rows with a cell that does not convert: text, a decimal where an int is
\* wanted, a row too short to have its last columns
BadRows == { Row(Cell("real", 12346), Cell("text", 0), Cell("int", 10)),
             Row(Cell("real", 12346), Cell("int", 100), Cell("real", 1500)),
             [Row(Cell("real", 12346), Cell("int", 100), Cell("none", 0))
                 EXCEPT !["threads"] = Cell("none", 0)] }

RECURSIVE SeqsUpTo(_, _)
SeqsUpTo(S, n) ==
    IF n = 0 THEN {<<>>}
    ELSE LET shorter == SeqsUpTo(S, n - 1)
         IN  shorter \cup {Append(q, x) : q \in {p \in shorter : Len(p) = n - 1}, x \in S}

Headers == {Columns, Columns \ {"rss_mb"}, Columns \ {"threads"}}

CsvInputs ==
    {NoCsv}
    \cup {CsvFile(h, rs) : h \in Headers, rs \in SeqsUpTo(GoodRows \cup BadRows, MaxRows)}
    \cup {CsvFile({}, <<>>)}

-----------------------------------------------------------------------------
(* A call of one parser on one file *)

ParseK6 ==
    /\ call = "k6"
    /\ ret' = parse_k6_summary(arg)
    /\ call' = "returned"
    /\ UNCHANGED <<dirs, k6_files, res_files, summary_file, pc, gw_idx, summary,
                   lookups, stdout, exit_code, run, prev_file, arg>>

ParseResources ==
    /\ call = "resources"
    /\ ret' = parse_resources(arg)
    /\ call' = "returned"
    /\ UNCHANGED <<dirs, k6_files, res_files, summary_file, pc, gw_idx, summary,
                   lookups, stdout, exit_code, run, prev_file, arg>>

\* no program run: the state of the orchestrator while a parser is called alone
Idle ==
    /\ dirs = {}
    /\ k6_files = <<>>
    /\ res_files = <<>>
    /\ summary_file = [present |-> FALSE, lines |-> <<>>]
    /\ prev_file = summary_file
    /\ pc = "idle"
    /\ gw_idx = 0
    /\ summary = EmptyDict
    /\ lookups = {}
    /\ stdout = <<>>
    /\ exit_code = -1
    /\ run = 0

InitK6 ==
    /\ Idle
    /\ call = "k6"
    /\ arg \in K6Inputs
    /\ ret = Raise("pending")

InitRes ==
    /\ Idle
    /\ call = "resources"
    /\ arg \in CsvInputs
    /\ ret = Raise("pending")

SpecK6 == InitK6 /\ [][ParseK6]_vars

SpecRes == InitRes /\ [][ParseResources]_vars

-----------------------------------------------------------------------------
(* Claims about parse_k6_summary *)

\* the statistics of family i that the code rounds
RoundedStats(i) ==
    CASE i = 1 -> {LatencyStats[j][2] : j \in 1..Len(LatencyStats)}
      [] i = 2 -> {TtfbStats[j][2] : j \in 1..Len(TtfbStats)}
      [] i = 3 -> {"rate"}
      [] i = 4 -> {"rate"}
      [] i = 5 -> {}

\* the document follows the consumed schema
\* {"metrics": {"<name>": {"values": {<stat>: number, ...}}}}
Conforms(v) ==
    /\ v.t = "dict"
    /\ HasKey(v, "metrics") =>
        LET m == Item(v, "metrics")
        IN  /\ m.t = "dict"
            /\ \A i \in 1..5 : HasKey(m, FamilyNames[i]) =>
                LET fam == Item(m, FamilyNames[i])
                IN  /\ fam.t = "dict"
                    /\ HasKey(fam, "values")
                    /\ Item(fam, "values").t = "dict"
                    /\ \A st \in RoundedStats(i) :
                          HasKey(Item(fam, "values"), st)
                              => IsNumber(Item(Item(fam, "values"), st))

\* the result keys each family yields
ResultKeys(i) ==
    CASE i = 1 -> {"latency"}
      [] i = 2 -> {"ttfb"}
      [] i = 3 -> {"rps", "total_requests"}
      [] i = 4 -> {"success_rate"}
      [] i = 5 -> {"error_count"}

IsZero(v) == IsNumber(v) /\ v.n = 0

\* the record has a family's keys exactly when the family is in `metrics`, and
\* reports 0 for every statistic that a present family lacks
RecordAsClaimed(doc, rec) ==
    LET m == Get(doc, "metrics", EmptyDict)
        vals(i) == Item(Item(m, FamilyNames[i]), "values")
    IN  /\ \A i \in 1..5 : \A k \in ResultKeys(i) :
              HasKey(rec, k) <=> HasKey(m, FamilyNames[i])
        /\ \A k \in {rec.d[j][1] : j \in 1..Len(rec.d)} :
              \E i \in 1..5 : k \in ResultKeys(i)
        /\ HasKey(m, FamilyNames[1]) =>
              \A j \in 1..Len(LatencyStats) :
                  ~HasKey(vals(1), LatencyStats[j][2])
                      => IsZero(Item(Item(rec, "latency"), LatencyStats[j][1]))
        /\ HasKey(m, FamilyNames[2]) =>
              \A j \in 1..Len(TtfbStats) :
                  ~HasKey(vals(2), TtfbStats[j][2])
                      => IsZero(Item(Item(rec, "ttfb"), TtfbStats[j][1]))
        /\ HasKey(m, FamilyNames[3]) =>
              /\ ~HasKey(vals(3), "rate") => IsZero(Item(rec, "rps"))
              /\ ~HasKey(vals(3), "count") => IsZero(Item(rec, "total_requests"))
        /\ HasKey(m, FamilyNames[4]) =>
              (~HasKey(vals(4), "rate") => IsZero(Item(rec, "success_rate")))
        /\ HasKey(m, FamilyNames[5]) =>
              (~HasKey(vals(5), "count") => IsZero(Item(rec, "error_count")))

\* C3 as stated: parse_k6_summary raises only for a missing file or invalid
\* JSON; for every existing file of valid JSON it returns a record that omits
\* exactly the absent families and reports 0 for each absent statistic.
C3_AnyValidJsonParses ==
    (call = "returned" /\ arg.present /\ arg.json) =>
        /\ ~Raised(ret)
        /\ RecordAsClaimed(arg.value, ret.val)

\* C3 amended: parse_k6_summary raises for a missing file and for invalid
\* JSON; for every existing file of valid JSON that follows the consumed
\* schema it returns a record that omits exactly the absent families and
\* reports 0 for each absent statistic.
C3_ConformingJsonParses ==
    call = "returned" =>
        /\ ~arg.present => ret.err = "FileNotFoundError"
        /\ (arg.present /\ ~arg.json) => ret.err = "JSONDecodeError"
        /\ (arg.present /\ arg.json /\ Conforms(arg.value)) =>
              /\ ~Raised(ret)
              /\ RecordAsClaimed(arg.value, ret.val)

\* a conforming summary with an absent family and an absent statistic, parsed
C3_Witness ==
    /\ call = "returned"
    /\ arg.present /\ arg.json /\ Conforms(arg.value)
    /\ HasKey(arg.value, "metrics")
    /\ LET m == Item(arg.value, "metrics")
       IN  /\ ~HasKey(m, "success_rate")
           /\ HasKey(m, "http_reqs")
           /\ ~HasKey(Item(Item(m, "http_reqs"), "values"), "rate")
           /\ HasKey(m, "http_req_duration")
           /\ HasKey(Item(Item(m, "http_req_duration"), "values"), "med")
    /\ ~Raised(ret)
    /\ IsZero(Item(ret.val, "rps"))
    /\ ~HasKey(ret.val, "success_rate")

-----------------------------------------------------------------------------
(* Claims about parse_resources *)

\* the number a well-formed cell of a real-valued column holds, in thousandths
CellReal(c) == IF c.k = "int" THEN 1000 * c.n ELSE c.n

\* every data row of the file has its five columns, each a number of its type
WellFormedRow(header, row) ==
    /\ Columns \subseteq header
    /\ \A c \in {"timestamp", "fd_count", "threads"} : row[c].k = "int"
    /\ \A c \in {"cpu_percent", "rss_mb"} : row[c].k \in {"int", "real"}

WellFormedCsv(f) ==
    f.present /\ \A i \in 1..Len(f.rows) : WellFormedRow(f.header, f.rows[i])

\* g is x rounded to two decimals (both in thousandths)
IsRound2(g, x) ==
    /\ g % 10 = 0
    /\ x - g \in -5..5
    /\ x - g \in {-5, 5} => (g \div 10) % 2 = 0

\* C10: for data rows R1..Rn (n >= 1) in file order, memory_mb.growth is
\* round(Rn.rss_mb - R1.rss_mb, 2), last minus first and not max minus min,
\* and memory_mb.max is round(max rss_mb, 2).
C10_GrowthLastMinusFirst ==
    (call = "returned" /\ WellFormedCsv(arg) /\ Len(arg.rows) >= 1) =>
        LET n     == Len(arg.rows)
            first == CellReal(arg.rows[1]["rss_mb"])
            last  == CellReal(arg.rows[n]["rss_mb"])
            all   == {CellReal(arg.rows[i]["rss_mb"]) : i \in 1..n}
            top   == CHOOSE x \in all : \A y \in all : y <= x
        IN  /\ ~Raised(ret)
            /\ LET mem == Item(ret.val, "memory_mb")
               IN  /\ Item(mem, "growth").t = "float"
                   /\ IsRound2(Item(mem, "growth").n, last - first)
                   /\ Item(mem, "max").t = "float"
                   /\ IsRound2(Item(mem, "max").n, top)
                   /\ n = 1 => Item(mem, "growth").n = 0

\* memory shrinks from a first row that is not the maximum: growth is negative
C10_Witness ==
    /\ call = "returned"
    /\ WellFormedCsv(arg)
    /\ Len(arg.rows) = 3
    /\ CellReal(arg.rows[3]["rss_mb"]) < CellReal(arg.rows[1]["rss_mb"])
    /\ CellReal(arg.rows[1]["rss_mb"]) < CellReal(arg.rows[2]["rss_mb"])
    /\ ~Raised(ret)
    /\ Item(Item(ret.val, "memory_mb"), "growth").n < 0

-----------------------------------------------------------------------------
(* main: the orchestrator *)

gateways == <<"go", "node", "next">>

scenarios == <<"s01", "s02", "s03", "s04", "s05", "s06", "s07", "s08", "s09", "s10">>

Gateways  == {gateways[i] : i \in 1..Len(gateways)}
Scenarios == {scenarios[i] : i \in 1..Len(scenarios)}

\* a directory test that always passes
DirExistsAlways(gw) == TRUE

\* gw_dir.exists()
DirExists(gw) == gw \in dirs

\* a file test that always passes: the parser is called on a missing file
ExistsAlways(f) == TRUE

\* k6_file.exists() / res_file.exists()
Exists(f) == f.present

\* an entry stored whether or not it is empty
StoredAlways(entry) == TRUE

\* `if entry:` : an empty dict is false
Stored(entry) == entry.d # <<>>

\* an exception, marked with the file it came from
From(r, kind) == IF Raised(r) THEN [err |-> r.err, val |-> StrV(kind)] ELSE r

\* the two sub-parses of one scenario: each file is parsed when it exists
SubParses(k6, res) ==
    << IF Exists(k6) THEN From(parse_k6_summary(k6), "k6") ELSE Ok(NoneV),
       IF Exists(res) THEN From(parse_resources(res), "res") ELSE Ok(NoneV) >>

\* entry with 'performance' and 'resources' for the files that exist, or the
\* first exception
EntryOf(k6, res, parsed) ==
    IF Raised(parsed[1]) THEN parsed[1]
    ELSE IF Raised(parsed[2]) THEN parsed[2]
    ELSE Ok(Dict((IF Exists(k6) THEN << <<"performance", parsed[1].val>> >> ELSE <<>>)
                 \o (IF Exists(res) THEN << <<"resources", parsed[2].val>> >> ELSE <<>>)))

\* the body of the scenario loop for one scenario
BuildEntry(gw, scenario) ==
    EntryOf(k6_files[<<gw, scenario>>], res_files[<<gw, scenario>>],
            SubParses(k6_files[<<gw, scenario>>], res_files[<<gw, scenario>>]))

\* the first index of a sequence of outcomes that raised, Len + 1 if none did
FirstRaise(bs) ==
    IF \E i \in 1..Len(bs) : bs[i].err # "none"
    THEN CHOOSE i \in 1..Len(bs) :
            bs[i].err # "none" /\ \A j \in 1..(i - 1) : bs[j].err = "none"
    ELSE Len(bs) + 1

\* the scenarios before `stop` whose entry is stored, in loop order
Kept(bs, stop) ==
    SelectSeq([i \in 1..(stop - 1) |-> i], LAMBDA i : Stored(bs[i].val))

\* what the scenario loop leaves when it stops at index `stop`: the entries
\* stored in summary[gw], the files whose existence was tested, the exception
LoopResult(gw, bs, stop, kept) ==
    [err     |-> IF stop > Len(bs) THEN "none" ELSE bs[stop].err,
     entries |-> Dict([j \in 1..Len(kept) |-> <<scenarios[kept[j]], bs[kept[j]].val>>]),
     probes  |-> {<<gw, scenarios[i], k>> :
                    i \in {j \in 1..Len(bs) : j <= stop}, k \in {"k6", "res"}}
                 \ (IF stop <= Len(bs) /\ bs[stop].val.s = "k6"
                    THEN {<<gw, scenarios[stop], "res">>} ELSE {})]

ScenarioLoop(gw, bs) == LoopResult(gw, bs, FirstRaise(bs), Kept(bs, FirstRaise(bs)))

GatewayResult(gw) ==
    ScenarioLoop(gw, [i \in 1..Len(scenarios) |-> BuildEntry(gw, scenarios[i])])

\* a gateway whose directory does not exist: `continue`
SkipGateway ==
    /\ pc = "gateways"
    /\ gw_idx <= Len(gateways)
    /\ ~DirExists(gateways[gw_idx])
    /\ gw_idx' = gw_idx + 1
    /\ UNCHANGED <<dirs, k6_files, res_files, summary_file, pc, summary, lookups,
                   stdout, exit_code, run, prev_file, call, arg, ret>>

\* the scenario loop ran to its end
Processed(r) ==
    /\ r.err = "none"
    /\ summary' = Put(summary, gateways[gw_idx], r.entries)
    /\ lookups' = lookups \cup r.probes
    /\ gw_idx' = gw_idx + 1
    /\ UNCHANGED <<pc, stdout, exit_code>>

\* a parser raised: the exception leaves main and the interpreter exits with
\* status 1
Crashed(r) ==
    /\ r.err # "none"
    /\ summary' = Put(summary, gateways[gw_idx], r.entries)
    /\ lookups' = lookups \cup r.probes
    /\ stdout' = Append(stdout, [kind |-> "traceback", text |-> r.err, rows |-> <<>>])
    /\ pc' = "crashed"
    /\ exit_code' = 1
    /\ UNCHANGED gw_idx

\* a gateway whose ten scenarios are read without an exception
ProcessGateway ==
    /\ pc = "gateways"
    /\ gw_idx <= Len(gateways)
    /\ DirExists(gateways[gw_idx])
    /\ Processed(GatewayResult(gateways[gw_idx]))
    /\ UNCHANGED <<dirs, k6_files, res_files, summary_file, run, prev_file,
                   call, arg, ret>>

\* a gateway one of whose files raises
CrashGateway ==
    /\ pc = "gateways"
    /\ gw_idx <= Len(gateways)
    /\ DirExists(gateways[gw_idx])
    /\ Crashed(GatewayResult(gateways[gw_idx]))
    /\ UNCHANGED <<dirs, k6_files, res_files, summary_file, run, prev_file,
                   call, arg, ret>>

-----------------------------------------------------------------------------
(* main: the reporter *)

\* the digits after the point of a float with f thousandths: repr drops the
\* trailing zeros but keeps one digit
FracDigits(f) ==
    IF f % 100 = 0 THEN ToString(f \div 100)
    ELSE IF f % 10 = 0
         THEN (IF f < 100 THEN "0" ELSE "") \o ToString(f \div 10)
         ELSE (IF f < 10 THEN "00" ELSE IF f < 100 THEN "0" ELSE "") \o ToString(f)

\* str(v), which json.dump also writes for a number
str(v) ==
    CASE v.t = "float" ->
            LET a == IF v.n < 0 THEN -v.n ELSE v.n
            IN  (IF v.n < 0 THEN "-" ELSE "") \o ToString(a \div 1000) \o "."
                \o FracDigits(a % 1000)
      [] v.t = "int"  -> ToString(v.n)
      [] v.t = "str"  -> v.s
      [] v.t = "None" -> "None"
      [] v.t = "list" -> "[]"
      [] v.t = "dict" -> "{...}"

\* the placeholder of the table
Dash == StrV("-")

\* d[k1][k2]...[kn] : an absent key raises KeyError
RECURSIVE PathGetStrict(_, _)
PathGetStrict(v, path) ==
    IF v.t # "dict" THEN Raise("AttributeError")
    ELSE IF ~HasKey(v, path[1]) THEN Raise("KeyError")
    ELSE IF Len(path) = 1 THEN Ok(Item(v, path[1]))
    ELSE PathGetStrict(Item(v, path[1]), Tail(path))

\* d.get(k1, {}).get(k2, {}) ... .get(kn, '-') : .get of a value that is no
\* dict raises AttributeError
RECURSIVE PathGet(_, _)
PathGet(v, path) ==
    IF v.t # "dict" THEN Raise("AttributeError")
    ELSE IF Len(path) = 1 THEN Ok(Get(v, path[1], Dash))
    ELSE PathGet(Get(v, path[1], EmptyDict), Tail(path))

\* the table's rows: the metric name and the path its getter follows
Metrics ==
    << <<"RPS",              <<"performance", "rps">> >>,
       <<"Avg Latency (ms)", <<"performance", "latency", "avg">> >>,
       <<"P50 Latency (ms)", <<"performance", "latency", "p50">> >>,
       <<"P95 Latency (ms)", <<"performance", "latency", "p95">> >>,
       <<"P99 Latency (ms)", <<"performance", "latency", "p99">> >>,
       <<"Success Rate (%)", <<"performance", "success_rate">> >>,
       <<"Avg CPU (%)",      <<"resources", "cpu", "avg">> >>,
       <<"Max CPU (%)",      <<"resources", "cpu", "max">> >>,
       <<"Avg Mem (MB)",     <<"resources", "memory_mb", "avg">> >>,
       <<"Max Mem (MB)",     <<"resources", "memory_mb", "max">> >>,
       <<"Mem Growth (MB)",  <<"resources", "memory_mb", "growth">> >>,
       <<"Max FD Count",     <<"resources", "fd_count", "max">> >> >>

\* a table for every scenario, with data or not
has_data_always(sm, scenario) == TRUE

\* any(scenario in summary.get(gw, {}) for gw in gateways)
has_data(sm, scenario) ==
    \E i \in 1..Len(gateways) : HasKey(Get(sm, gateways[i], EmptyDict), scenario)

\* str(getter(summary.get(gw, {}).get(scenario, {})))
CellOf(sm, gw, scenario, path) ==
    Then(PathGet(Get(Get(sm, gw, EmptyDict), scenario, EmptyDict), path),
         LAMBDA v : Ok(str(v)))

\* one printed row: the metric name and the three cells, or the exception
RowOf(sm, scenario, m) ==
    AllThen([i \in 1..Len(gateways) |-> CellOf(sm, gateways[i], scenario, Metrics[m][2])],
            LAMBDA cs : Ok([name |-> Metrics[m][1], cells |-> cs]))

\* the block printed for one scenario: its title and its rows under the
\* fixed column headers Go, Node.js, Next.js
BlockOf(sm, scenario) ==
    AllThen([m \in 1..Len(Metrics) |-> RowOf(sm, scenario, m)],
            LAMBDA rows : Ok([kind |-> "block", text |-> scenario, rows |-> rows]))

\* the scenarios that get a table, in loop order
Shown(sm) ==
    SelectSeq(scenarios, LAMBDA sc : has_data(sm, sc))

\* what the table loop prints when it stops at block `stop`
Printed(bs, stop) ==
    [err   |-> IF stop > Len(bs) THEN "none" ELSE bs[stop].err,
     items |-> [j \in 1..(stop - 1) |-> bs[j].val]]

TableLoop(bs) == Printed(bs, FirstRaise(bs))

\* the table loop: a block for each scenario that has data, until one raises
Tables(sm) ==
    TableLoop([j \in 1..Len(Shown(sm)) |-> BlockOf(sm, Shown(sm)[j])])

Banner == [kind |-> "banner", text |-> "LLM GATEWAY BENCHMARK RESULTS", rows |-> <<>>]

\* the tables are printed, or a getter raised
Reported(t) ==
    IF t.err = "none"
    THEN /\ stdout' = stdout \o <<Banner>> \o t.items
         /\ pc' = "save"
         /\ UNCHANGED exit_code
    ELSE /\ stdout' = stdout \o <<Banner>> \o t.items
                    \o <<[kind |-> "traceback", text |-> t.err, rows |-> <<>>]>>
         /\ pc' = "crashed"
         /\ exit_code' = 1

\* the gateway loop is over: print the comparison tables
Report ==
    /\ pc = "gateways"
    /\ gw_idx > Len(gateways)
    /\ Reported(Tables(summary))
    /\ UNCHANGED <<dirs, k6_files, res_files, summary_file, gw_idx, summary, lookups,
                   run, prev_file, call, arg, ret>>

-----------------------------------------------------------------------------
(* main: saving summary.json *)

Indent(level) ==
    CASE level = 0 -> ""
      [] level = 1 -> "  "
      [] level = 2 -> "    "
      [] level = 3 -> "      "
      [] level = 4 -> "        "
      [] level = 5 -> "          "
      [] OTHER     -> "            "

\* the JSON text of a value that is no dict
Scalar(v) ==
    CASE v.t = "str"  -> "\"" \o v.s \o "\""
      [] v.t = "None" -> "null"
      [] OTHER        -> str(v)

\* json.dump(v, f, indent=2): the lines written for v at a nesting level, after
\* `prefix` (the key) and before `suffix` (the comma)
RECURSIVE DumpLines(_, _, _, _), DumpItems(_, _, _)
DumpLines(v, level, prefix, suffix) ==
    IF v.t # "dict" THEN << Indent(level) \o prefix \o Scalar(v) \o suffix >>
    ELSE IF v.d = <<>> THEN << Indent(level) \o prefix \o "{}" \o suffix >>
    ELSE << Indent(level) \o prefix \o "{" >>
         \o DumpItems(v.d, 1, level + 1)
         \o << Indent(level) \o "}" \o suffix >>

DumpItems(items, i, level) ==
    IF i > Len(items) THEN <<>>
    ELSE DumpLines(items[i][2], level, "\"" \o items[i][1] \o "\": ",
                   IF i < Len(items) THEN "," ELSE "")
         \o DumpItems(items, i + 1, level)

json_dump(v) == DumpLines(v, 0, "", "")

\* open(output_file, 'a'): the lines are added to the old content
WriteFileAppend(old, lines) == [present |-> TRUE, lines |-> old.lines \o lines]

\* open(output_file, 'w') and the write: the old content is truncated
WriteFile(old, lines) == [present |-> TRUE, lines |-> lines]

Save ==
    /\ pc = "save"
    /\ summary_file' = WriteFile(summary_file, json_dump(summary))
    /\ stdout' = Append(stdout, [kind |-> "saved", text |-> "summary.json", rows |-> <<>>])
    /\ pc' = "done"
    /\ exit_code' = 0
    /\ UNCHANGED <<dirs, k6_files, res_files, gw_idx, summary, lookups, run, prev_file,
                   call, arg, ret>>

-----------------------------------------------------------------------------
(* The results directory and the runs of the program *)

\* the scenarios whose files may exist: the first and the last of the loop
FiledScenarios == {scenarios[1], scenarios[Len(scenarios)]}

\* the summaries found under the results directory: invalid JSON, the summary
\* with http_reqs alone, the summary with every family
DirK6 ==
    { BadJson,
      JsonFile(K6Doc([i \in 1..5 |-> IF i = 3 THEN "full" ELSE "absent"])),
      JsonFile(K6Doc([i \in 1..5 |-> "full"])) }

\* the CSVs found there: a header alone, a header alone that lacks a column,
\* two good rows, a row with text for a number
DirCsv ==
    { CsvFile(Columns, <<>>),
      CsvFile(Columns \ {"rss_mb"}, <<>>),
      CsvFile(Columns, << Row(Cell("real", 12346), Cell("real", 101506), Cell("int", 10)),
                          Row(Cell("int", 50), Cell("real", 99994), Cell("int", 13)) >>),
      CsvFile(Columns, << Row(Cell("real", 12346), Cell("int", 100), Cell("int", 10)),
                          Row(Cell("real", 12346), Cell("text", 0), Cell("int", 10)) >>) }

NoSummaryFile == [present |-> FALSE, lines |-> <<>>]

\* a summary.json left in the results directory by an earlier run
OldSummaryFile == [present |-> TRUE, lines |-> <<"{", "  \"go\": {}", "}">>]

Init ==
    /\ dirs \in SUBSET Gateways
    /\ \E F \in {S \in SUBSET (dirs \X FiledScenarios \X {"k6", "res"}) :
                    Cardinality(S) <= MaxFiles} :
         \E kc \in [{x \in F : x[3] = "k6"} -> DirK6],
            rc \in [{x \in F : x[3] = "res"} -> DirCsv] :
            /\ k6_files = [p \in Gateways \X Scenarios |->
                              IF <<p[1], p[2], "k6">> \in F
                              THEN kc[<<p[1], p[2], "k6">>] ELSE Missing]
            /\ res_files = [p \in Gateways \X Scenarios |->
                              IF <<p[1], p[2], "res">> \in F
                              THEN rc[<<p[1], p[2], "res">>] ELSE NoCsv]
    /\ summary_file \in {NoSummaryFile, OldSummaryFile}
    /\ prev_file = summary_file
    /\ pc = "gateways"
    /\ gw_idx = 1
    /\ summary = EmptyDict
    /\ lookups = {}
    /\ stdout = <<>>
    /\ exit_code = -1
    /\ run = 1
    /\ call = "none"
    /\ arg = Missing
    /\ ret = Raise("none")

\* one run of the program
Next ==
    \/ SkipGateway
    \/ ProcessGateway
    \/ CrashGateway
    \/ Report
    \/ Save

Spec == Init /\ [][Next]_vars

\* the program is started again on the directory as the run that wrote
\* summary.json left it
Rerun ==
    /\ pc = "done"
    /\ run < MaxRuns
    /\ run' = run + 1
    /\ prev_file' = summary_file
    /\ pc' = "gateways"
    /\ gw_idx' = 1
    /\ summary' = EmptyDict
    /\ lookups' = {}
    /\ stdout' = <<>>
    /\ exit_code' = -1
    /\ UNCHANGED <<dirs, k6_files, res_files, summary_file, call, arg, ret>>

\* runs of the program, one after the other
NextRerun ==
    \/ SkipGateway
    \/ ProcessGateway
    \/ CrashGateway
    \/ Report
    \/ Save
    \/ Rerun

SpecRerun == Init /\ [][NextRerun]_vars

-----------------------------------------------------------------------------
(* Claims about the runs of the program *)

GwIndex(gw) == CHOOSE i \in 1..Len(gateways) : gateways[i] = gw

\* the scenario loop of gw has run to its end in this run
Finished(gw) ==
    /\ gw \in dirs
    /\ \/ pc \in {"save", "done"}
       \/ pc \in {"gateways", "crashed"} /\ GwIndex(gw) < gw_idx

\* the Entry stored for a pair, when there is one
HasEntry(gw, sc) == HasKey(summary, gw) /\ HasKey(Item(summary, gw), sc)
Entry(gw, sc) == Item(Item(summary, gw), sc)

\* a resources CSV with a missing or non-numeric column, as C1 states it
CsvMalformedAsStated(f) ==
    /\ f.present
    /\ \/ ~(Columns \subseteq f.header)
       \/ \E i \in 1..Len(f.rows) : \E c \in Columns : f.rows[i][c].k \in {"text", "none"}

\* a resources CSV with a data row in which a column is missing or is no
\* number of the column's type
CsvMalformedRow(f) ==
    f.present /\ \E i \in 1..Len(f.rows) : ~WellFormedRow(f.header, f.rows[i])

\* a malformed file stops the run before summary.json is opened
StopsTheRun(gw) ==
    /\ pc \in {"gateways", "crashed"}
    /\ pc = "gateways" => gw_idx <= GwIndex(gw)
    /\ pc = "crashed" => exit_code = 1 /\ gw_idx <= GwIndex(gw)
    /\ exit_code # 0
    /\ summary_file = prev_file

\* C1 as stated: if any result file under an existing variant directory is
\* malformed (invalid JSON in a summary, a missing or non-numeric column in a
\* resources CSV), then wherever it is in the iteration order the run ends
\* with a non-zero exit and summary.json is never written in that run.
C1_MalformedAbortsAsStated ==
    \A gw \in dirs : \A sc \in Scenarios :
        (\/ k6_files[<<gw, sc>>].present /\ ~k6_files[<<gw, sc>>].json
         \/ CsvMalformedAsStated(res_files[<<gw, sc>>]))
            => StopsTheRun(gw)

\* C1 amended: if any result file under an existing variant directory is
\* malformed (invalid JSON in a summary, or a data row of a resources CSV in
\* which a column is missing or is no number of the column's type), then
\* wherever it is in the iteration order the run ends with a non-zero exit and
\* summary.json is never written in that run, so it keeps its old content.
C1_MalformedAborts ==
    \A gw \in dirs : \A sc \in Scenarios :
        (\/ k6_files[<<gw, sc>>].present /\ ~k6_files[<<gw, sc>>].json
         \/ CsvMalformedRow(res_files[<<gw, sc>>]))
            => StopsTheRun(gw)

\* the last file of the iteration order is malformed: the run has stored an
\* entry, crashed on it, and the old summary.json is as it was
C1_Witness ==
    /\ pc = "crashed"
    /\ exit_code = 1
    /\ CsvMalformedRow(res_files[<<"next", "s10">>])
    /\ HasEntry("go", "s01")
    /\ summary_file = OldSummaryFile

\* every file that exists parses
AllPresentParse ==
    \A gw \in dirs : \A sc \in Scenarios :
        /\ k6_files[<<gw, sc>>].present => ~Raised(parse_k6_summary(k6_files[<<gw, sc>>]))
        /\ res_files[<<gw, sc>>].present => ~Raised(parse_resources(res_files[<<gw, sc>>]))

\* C2: under an existing variant directory a missing summary JSON or
\* resources CSV raises no error, and the Entry of a pair has `performance`
\* exactly when the summary JSON exists and `resources` exactly when the CSV
\* exists.
C2_MissingFilesSkipped ==
    /\ pc = "crashed" => ~AllPresentParse
    /\ \A gw \in Gateways : \A sc \in Scenarios :
          /\ HasEntry(gw, sc) =>
                /\ HasKey(Entry(gw, sc), "performance") <=> k6_files[<<gw, sc>>].present
                /\ HasKey(Entry(gw, sc), "resources") <=> res_files[<<gw, sc>>].present
          /\ (Finished(gw) /\ (k6_files[<<gw, sc>>].present \/ res_files[<<gw, sc>>].present))
                => HasEntry(gw, sc)

\* the directory go holds s01-summary.json and nothing else
C2_Witness ==
    /\ pc = "done"
    /\ \A sc \in Scenarios : ~res_files[<<"go", sc>>].present
    /\ \A sc \in Scenarios : k6_files[<<"go", sc>>].present <=> sc = "s01"
    /\ HasKey(Entry("go", "s01"), "performance")
    /\ ~HasKey(Entry("go", "s01"), "resources")

\* C4: a second run on the unchanged directory, which holds the first run's
\* summary.json, writes the same bytes as the first run.
C4_SecondRunSameBytes ==
    (run >= 2 /\ pc = "done") => prev_file.present /\ summary_file = prev_file

C4_Witness ==
    /\ run = 2
    /\ pc = "done"
    /\ HasEntry("go", "s01")
    /\ HasEntry("next", "s10")
    /\ Len(summary_file.lines) > 10

\* a resources CSV with a header and no data row
HeaderOnly(f) == f.present /\ f.header # {} /\ f.rows = <<>>

\* every file that exists and is no header-only CSV parses
AllOthersParse ==
    \A gw \in dirs : \A sc \in Scenarios :
        /\ k6_files[<<gw, sc>>].present => ~Raised(parse_k6_summary(k6_files[<<gw, sc>>]))
        /\ (res_files[<<gw, sc>>].present /\ ~HeaderOnly(res_files[<<gw, sc>>]))
              => ~Raised(parse_resources(res_files[<<gw, sc>>]))

\* C5: a resources CSV with a header row and zero data rows is no error:
\* parse_resources returns an empty mapping, no average, max, min or growth
\* is taken over the empty rows, and the run goes on to the next file.
C5_HeaderOnlyCsvIsEmptyRecord ==
    /\ \A gw \in dirs : \A sc \in Scenarios :
          HeaderOnly(res_files[<<gw, sc>>]) =>
              /\ parse_resources(res_files[<<gw, sc>>]) = Ok(EmptyDict)
              /\ HasEntry(gw, sc) => Item(Entry(gw, sc), "resources") = EmptyDict
              /\ Finished(gw) => HasEntry(gw, sc)
    /\ pc = "crashed" => ~AllOthersParse

\* go/s01-resources.csv is a header alone; the run went on to go/s10
C5_Witness ==
    /\ pc = "done"
    /\ exit_code = 0
    /\ HeaderOnly(res_files[<<"go", "s01">>])
    /\ Entry("go", "s01") = Dict(<< <<"resources", EmptyDict>> >>)
    /\ HasEntry("go", "s10")

\* C6: a variant whose directory does not exist is skipped entirely: no key
\* in the Summary, none of its files looked up, the other variants processed.
C6_MissingVariantSkipped ==
    /\ \A gw \in Gateways \ dirs :
          /\ ~HasKey(summary, gw)
          /\ \A sc \in Scenarios : \A k \in {"k6", "res"} : <<gw, sc, k>> \notin lookups
    /\ \A gw \in dirs : Finished(gw) =>
          /\ HasKey(summary, gw)
          /\ \A sc \in Scenarios : \A k \in {"k6", "res"} : <<gw, sc, k>> \in lookups

C6_Witness ==
    /\ pc = "done"
    /\ dirs = {"node", "next"}
    /\ HasEntry("node", "s01")
    /\ HasEntry("next", "s10")

\* C7: an Entry is stored only if one of its two sub-parses gave a part: a
\* pair with neither file has no Entry, no stored Entry lacks both keys.
C7_NoEmptyEntry ==
    \A gw \in Gateways : \A sc \in Scenarios :
        /\ HasEntry(gw, sc) =>
              HasKey(Entry(gw, sc), "performance") \/ HasKey(Entry(gw, sc), "resources")
        /\ (~k6_files[<<gw, sc>>].present /\ ~res_files[<<gw, sc>>].present)
              => ~HasEntry(gw, sc)

\* go exists and holds nothing; node holds one file
C7_Witness ==
    /\ pc = "done"
    /\ HasKey(summary, "go")
    /\ Item(summary, "go") = EmptyDict
    /\ HasKey(summary, "node")
    /\ Len(Item(summary, "node").d) = 1

\* the titles of the printed blocks, in print order
BlockTitles ==
    LET blocks == SelectSeq(stdout, LAMBDA it : it.kind = "block")
    IN  [i \in 1..Len(blocks) |-> blocks[i].text]

\* C8: the reporter prints a block for scenario s, in the order s01..s10,
\* exactly when some variant has an Entry for s; a scenario with no file in
\* any variant directory gets no table.
C8_TableIffData ==
    pc \in {"save", "done"} =>
        /\ BlockTitles = SelectSeq(scenarios, LAMBDA sc : \E gw \in Gateways : HasEntry(gw, sc))
        /\ \A sc \in Scenarios :
              (\A gw \in dirs : ~k6_files[<<gw, sc>>].present /\ ~res_files[<<gw, sc>>].present)
                  => \A i \in 1..Len(BlockTitles) : BlockTitles[i] # sc

C8_Witness ==
    /\ pc = "done"
    /\ BlockTitles = <<"s01", "s10">>
    /\ HasEntry("next", "s01")
    /\ HasEntry("go", "s10")

\* the twelve metric rows of a table
MetricNames ==
    <<"RPS", "Avg Latency (ms)", "P50 Latency (ms)", "P95 Latency (ms)",
      "P99 Latency (ms)", "Success Rate (%)", "Avg CPU (%)", "Max CPU (%)",
      "Avg Mem (MB)", "Max Mem (MB)", "Mem Growth (MB)", "Max FD Count">>

\* the accessor path is in the Summary for the variant and scenario
RECURSIVE PathPresent(_, _)
PathPresent(v, path) ==
    /\ v.t = "dict"
    /\ HasKey(v, path[1])
    /\ Len(path) = 1 \/ PathPresent(Item(v, path[1]), Tail(path))

RECURSIVE PathValue(_, _)
PathValue(v, path) ==
    IF Len(path) = 1 THEN Item(v, path[1]) ELSE PathValue(Item(v, path[1]), Tail(path))

\* C9: every printed table has the twelve metric rows in the fixed order and
\* three cells per row in the order go, node, next; a cell is `-` exactly when
\* the metric's path is absent from the Summary for that variant and scenario,
\* and else the stored value; no lookup raises.
C9_FixedTableCells ==
    /\ gw_idx > Len(gateways) => pc # "crashed"
    /\ \A b \in 1..Len(stdout) : stdout[b].kind = "block" =>
          /\ [m \in 1..Len(stdout[b].rows) |-> stdout[b].rows[m].name] = MetricNames
          /\ \A m \in 1..Len(stdout[b].rows) :
                /\ Len(stdout[b].rows[m].cells) = Len(gateways)
                /\ \A i \in 1..Len(gateways) :
                      LET cell == stdout[b].rows[m].cells[i]
                          path == <<gateways[i], stdout[b].text>> \o Metrics[m][2]
                      IN  /\ cell = "-" <=> ~PathPresent(summary, path)
                          /\ PathPresent(summary, path) => cell = str(PathValue(summary, path))

\* a table with a value, a placeholder for an absent variant, and a placeholder
\* for a path absent from an Entry that is there
C9_Witness ==
    /\ pc = "done"
    /\ "node" \notin dirs
    /\ \E b \in 1..Len(stdout) :
          /\ stdout[b].kind = "block"
          /\ stdout[b].rows[1].cells = <<"123.46", "-", "-">>
          /\ stdout[b].rows[11].cells = <<"-", "-", "-1.51">>

====
